---- MODULE Spec2Model ----
(***************************************************************************)
(* Retry orchestration of azure-functions-servicebus-retries:             *)
(* executeWithRetries and its helpers, the backoff calculation and the    *)
(* in-memory session-ordering store, together with a small model of the   *)
(* Service Bus queue and the Functions host that drive them.              *)
(*                                                                         *)
(* Time is in milliseconds.  JavaScript `undefined` is the value          *)
(* `undefined` for numbers and undefinedString for strings.               *)
(***************************************************************************)
EXTENDS Integers, Sequences, FiniteSets, TLC

VARIABLES
  config,              \* the retryConfiguration captured by serviceBusQueueWithRetries
  hostSuppliesSequenceNumber, \* whether triggerMetadata carries sequenceNumber
  now,                 \* Date.now()
  store,               \* the module-level Map<string, ScheduledEntry[]>
  queue,               \* messages held by the Service Bus queue
  nextSequenceNumber,  \* the queue's sequence-number counter
  inv,                 \* per payload: its in-flight invocation of executeWithRetries
  last,                \* what the last step did: the invocation as it left it
  firstBindingData,    \* per payload: the binding data synthesized at first delivery
  handlerCalls,        \* per payload: how often the handler was invoked
  handlerFailures,     \* per payload: how often the handler failed
  retryPublishes,      \* per payload: failure-driven republishes issued
  phase                \* per payload: where the logical message stands

vars == <<config, hostSuppliesSequenceNumber, now, store, queue, nextSequenceNumber,
          inv, last, firstBindingData, handlerCalls, handlerFailures, retryPublishes, phase>>

(***************************************************************************)
(* Bounds of the model.                                                    *)
(***************************************************************************)
MaxFailures == 3
MaxRetriesBound == 2
MaxInFlight == 2
MaxRetryCount == 3

(***************************************************************************)
(* Values.                                                                 *)
(***************************************************************************)
undefined == -1
undefinedString == "undefined"
MsPerSecond == 1000
DefaultSessionOrderingIncrementMs == 1000
DefaultLinearIncreaseSeconds == 1000
DefaultExponentialFactor == 2
DefaultJitter == 0
JitterScale == 100
RandomSteps == 4
\* The numbers of a configuration's backoff fields (delaySeconds,
\* maxDelaySeconds, linearIncreaseSeconds, exponentialFactor) are held as
\* counts of ConfigUnit-ths, so that fractions are among them.
ConfigUnit == 2

Payloads == {"p1", "p2"}

Max(a, b) == IF a >= b THEN a ELSE b
Min(a, b) == IF a <= b THEN a ELSE b

RECURSIVE Pow(_, _)
Pow(b, e) == IF e <= 0 THEN 1 ELSE b * Pow(b, e - 1)

\* Math.round on the rational n / d (d > 0): floor(n/d + 1/2)
MathRound(n, d) == (2 * n + d) \div (2 * d)

\* JavaScript `a < b` on numbers that may be undefined (NaN compares false)
LessThan(a, b) == a # undefined /\ b # undefined /\ a < b

(***************************************************************************)
(* sessionOrderingStore                                                    *)
(***************************************************************************)
RECURSIVE LatestOf(_, _, _)
LatestOf(entries, sequenceNumber, latest) ==
  IF entries = <<>> THEN latest
  ELSE LET entry == Head(entries)
           next == IF LessThan(entry.sequenceNumber, sequenceNumber)
                      /\ (latest = undefined \/ entry.scheduledTime > latest)
                   THEN entry.scheduledTime
                   ELSE latest
       IN LatestOf(Tail(entries), sequenceNumber, next)

\* Variant: the entries of every session are looked at, not only those of
\* the session asked for.
getLatestScheduledTimeForLowerSequence_AnySession(st, sessionId, sequenceNumber) ==
  LET times == UNION {{st[k][i].scheduledTime :
                         i \in {j \in 1..Len(st[k]) :
                                  LessThan(st[k][j].sequenceNumber, sequenceNumber)}} :
                      k \in DOMAIN st}
  IN IF times = {} THEN undefined
     ELSE CHOOSE y \in times : \A z \in times : y >= z

\* Variant: the time of the last lower-sequence entry in the array is
\* returned, without comparing the times.
getLatestScheduledTimeForLowerSequence_LastLower(st, sessionId, sequenceNumber) ==
  IF sessionId \notin DOMAIN st THEN undefined
  ELSE LET lower == {i \in 1..Len(st[sessionId]) :
                       LessThan(st[sessionId][i].sequenceNumber, sequenceNumber)}
       IN IF lower = {} THEN undefined
          ELSE st[sessionId][CHOOSE i \in lower : \A j \in lower : i >= j].scheduledTime

getLatestScheduledTimeForLowerSequence(st, sessionId, sequenceNumber) ==
  IF sessionId \notin DOMAIN st THEN undefined
  ELSE LatestOf(st[sessionId], sequenceNumber, undefined)

addScheduledEntry(st, sessionId, sequenceNumber, scheduledTime) ==
  LET entries == IF sessionId \in DOMAIN st THEN st[sessionId] ELSE <<>>
      entry == [sequenceNumber |-> sequenceNumber, scheduledTime |-> scheduledTime]
  IN [k \in DOMAIN st \cup {sessionId} |->
        IF k = sessionId THEN Append(entries, entry) ELSE st[k]]

\* Array.prototype.findIndex (1-based; 0 when nothing matches)
RECURSIVE FindIndexFrom(_, _, _)
FindIndexFrom(entries, sequenceNumber, i) ==
  IF i > Len(entries) THEN 0
  ELSE IF entries[i].sequenceNumber = sequenceNumber THEN i
  ELSE FindIndexFrom(entries, sequenceNumber, i + 1)

\* Array.prototype.splice(index, 1)
Splice(entries, index) ==
  [i \in 1..(Len(entries) - 1) |-> IF i < index THEN entries[i] ELSE entries[i + 1]]

\* Variant: every entry with the sequence number is removed, not the first.
removeScheduledEntry_EveryMatch(st, sessionId, sequenceNumber) ==
  IF sessionId \notin DOMAIN st THEN st
  ELSE LET entries == st[sessionId]
           left == SelectSeq(entries, LAMBDA e : e.sequenceNumber # sequenceNumber)
       IN IF Len(left) = 0
          THEN [k \in DOMAIN st \ {sessionId} |-> st[k]]
          ELSE [st EXCEPT ![sessionId] = left]

\* Variant: the splice is not guarded by index !== -1, so that without a
\* match splice(-1, 1) removes the last entry.
removeScheduledEntry_UnguardedSplice(st, sessionId, sequenceNumber) ==
  IF sessionId \notin DOMAIN st THEN st
  ELSE LET entries == st[sessionId]
           index == FindIndexFrom(entries, sequenceNumber, 1)
           left == IF index # 0 THEN Splice(entries, index)
                   ELSE Splice(entries, Len(entries))
       IN IF Len(left) = 0
          THEN [k \in DOMAIN st \ {sessionId} |-> st[k]]
          ELSE [st EXCEPT ![sessionId] = left]

removeScheduledEntry(st, sessionId, sequenceNumber) ==
  IF sessionId \notin DOMAIN st THEN st
  ELSE LET entries == st[sessionId]
           index == FindIndexFrom(entries, sequenceNumber, 1)
           left == IF index # 0 THEN Splice(entries, index) ELSE entries
       IN IF Len(left) = 0
          THEN [k \in DOMAIN st \ {sessionId} |-> st[k]]
          ELSE [st EXCEPT ![sessionId] = left]

clearSession(st, sessionId) ==
  [k \in DOMAIN st \ {sessionId} |-> st[k]]

\* The number of entries a store holds over all sessions
RECURSIVE StoreSize(_)
StoreSize(st) ==
  IF DOMAIN st = {} THEN 0
  ELSE LET k == CHOOSE x \in DOMAIN st : TRUE
       IN Len(st[k]) + StoreSize([x \in DOMAIN st \ {k} |-> st[x]])

(***************************************************************************)
(* backoff: calculateBackoffSeconds(config, retryCount).  `random` is the  *)
(* draw of Math.random() in RandomSteps-ths; jitter is in JitterScale-ths; *)
(* the other numbers are in ConfigUnit-ths.  The delay is carried as the   *)
(* fraction num / den until Math.round.  The result is [thrown, value],    *)
(* value a whole number as Math.round returns it.                          *)
(***************************************************************************)
OrDefault(value, default) == IF value = undefined THEN default ELSE value

\* Math.min of the fractions a.num / a.den and b.num / b.den (den > 0)
MinFraction(a, b) == IF a.num * b.den <= b.num * a.den THEN a ELSE b

\* Variant: a strategy that is none of the three is taken as fixed.
calculateBackoffSeconds_UnknownAsFixed(cfg, retryCount, random) ==
  [thrown |-> "none", value |-> Max(0, MathRound(cfg.delaySeconds, ConfigUnit))]

calculateBackoffSeconds(cfg, retryCount, random) ==
  LET retryStrategy == IF cfg.retryStrategy = undefinedString THEN "fixed" ELSE cfg.retryStrategy
      delaySeconds == cfg.delaySeconds
      maxDelaySeconds == cfg.maxDelaySeconds
      linearIncreaseSeconds == OrDefault(cfg.linearIncreaseSeconds,
                                         DefaultLinearIncreaseSeconds * ConfigUnit)
      exponentialFactor == OrDefault(cfg.exponentialFactor, DefaultExponentialFactor * ConfigUnit)
      jitter == OrDefault(cfg.jitter, DefaultJitter)
      \* delaySeconds * Math.pow(exponentialFactor, retryCount)
      exponential == [num |-> delaySeconds * Pow(exponentialFactor, retryCount),
                      den |-> ConfigUnit * Pow(ConfigUnit, retryCount)]
      delay == CASE retryStrategy = "fixed" -> [num |-> delaySeconds, den |-> ConfigUnit]
                 [] retryStrategy = "exponential" ->
                      IF maxDelaySeconds # undefined
                      THEN MinFraction(exponential, [num |-> maxDelaySeconds, den |-> ConfigUnit])
                      ELSE exponential
                 [] retryStrategy = "linear" ->
                      [num |-> delaySeconds + linearIncreaseSeconds * retryCount,
                       den |-> ConfigUnit]
                 [] OTHER -> [num |-> 0, den |-> 1]
      \* delay + delay * jitter * (Math.random() * 2 - 1)
      jittered == IF jitter > 0
                  THEN [num |-> delay.num * (JitterScale * RandomSteps
                                             + jitter * (2 * random - RandomSteps)),
                        den |-> delay.den * JitterScale * RandomSteps]
                  ELSE delay
  IN IF retryStrategy \notin {"fixed", "exponential", "linear"}
     THEN [thrown |-> "UnknownStrategyError", value |-> undefined]
     ELSE [thrown |-> "none", value |-> Max(0, MathRound(jittered.num, jittered.den))]

(***************************************************************************)
(* serviceBusRetryTrigger: data                                            *)
(***************************************************************************)
NoBindingData ==
  [messageId |-> undefined, enqueuedTimeUtc |-> undefined, expiresAtUtc |-> undefined,
   sessionId |-> undefinedString, sequenceNumber |-> undefined]

\* A message body that is the bare payload (no publishCount field).
RawBody(payload) ==
  [message |-> payload, originalBindingData |-> NoBindingData, publishCount |-> undefined]

\* 'publishCount' in message
IsWrapped(body) == body.publishCount # undefined

NoMessage ==
  [body |-> RawBody("none"), contentType |-> "none", scheduledEnqueueTimeUtc |-> undefined,
   sessionId |-> undefinedString, timeToLive |-> undefined]

\* date-fns-tz fromZonedTime: the instant of a wall-clock reading in a time zone
fromZonedTime(wallClock, timeZone) ==
  CASE timeZone = "UTC" -> wallClock

(***************************************************************************)
(* serviceBusRetryTrigger: the helpers of executeWithRetries.  Each takes  *)
(* the store and the clock it reads and returns what it throws, the store  *)
(* it leaves and the value it yields.                                      *)
(***************************************************************************)
\* Variant: the binding data is synthesized from the trigger metadata on every
\* delivery, also that of an envelope.
buildRetryInvocationContextAndMessage_Resynthesized(triggerMetadata, message) ==
  [context |-> [publishCount |-> IF IsWrapped(message) THEN message.publishCount ELSE 1,
                originalBindingData |->
                  [messageId |-> triggerMetadata.messageId,
                   expiresAtUtc |-> triggerMetadata.expiresAtUtc,
                   enqueuedTimeUtc |-> triggerMetadata.enqueuedTimeUtc,
                   sessionId |-> triggerMetadata.sessionId,
                   sequenceNumber |-> triggerMetadata.sequenceNumber],
                triggerMetadata |-> triggerMetadata],
   unwrappedMessage |-> message.message]

\* Variant: a first delivery counts as publish 0.
buildRetryInvocationContextAndMessage_CountFromZero(triggerMetadata, message) ==
  IF IsWrapped(message)
  THEN [context |-> [publishCount |-> message.publishCount,
                     originalBindingData |-> message.originalBindingData,
                     triggerMetadata |-> triggerMetadata],
        unwrappedMessage |-> message.message]
  ELSE [context |-> [publishCount |-> 0,
                     originalBindingData |->
                       [messageId |-> triggerMetadata.messageId,
                        expiresAtUtc |-> triggerMetadata.expiresAtUtc,
                        enqueuedTimeUtc |-> triggerMetadata.enqueuedTimeUtc,
                        sessionId |-> triggerMetadata.sessionId,
                        sequenceNumber |-> triggerMetadata.sequenceNumber],
                     triggerMetadata |-> triggerMetadata],
        unwrappedMessage |-> message.message]

buildRetryInvocationContextAndMessage(triggerMetadata, message) ==
  IF IsWrapped(message)
  THEN [context |-> [publishCount |-> message.publishCount,
                     originalBindingData |-> message.originalBindingData,
                     triggerMetadata |-> triggerMetadata],
        unwrappedMessage |-> message.message]
  ELSE [context |-> [publishCount |-> 1,
                     originalBindingData |->
                       [messageId |-> triggerMetadata.messageId,
                        expiresAtUtc |-> triggerMetadata.expiresAtUtc,
                        enqueuedTimeUtc |-> triggerMetadata.enqueuedTimeUtc,
                        sessionId |-> triggerMetadata.sessionId,
                        sequenceNumber |-> triggerMetadata.sequenceNumber],
                     triggerMetadata |-> triggerMetadata],
        unwrappedMessage |-> message.message]

\* line 93 (and 152, 193): whether session ordering is active
PreserveSessionOrdering(cfg, originalBindingData) ==
  /\ cfg.preserveSessionOrdering = "true"
  /\ originalBindingData.sessionId # undefinedString
  /\ originalBindingData.sequenceNumber # undefined

\* Variant: the remaining time is taken from the expiry of the delivered hop.
applyTtlIfNeeded_HopExpiry(st, cfg, context, t) ==
  LET obd == context.originalBindingData IN
  IF cfg.preserveExpiresAt # "false" /\ context.triggerMetadata.expiresAtUtc # undefined
  THEN LET expiryDateTime == fromZonedTime(context.triggerMetadata.expiresAtUtc, "UTC")
           timeToLive == expiryDateTime - t
       IN IF timeToLive <= 0
          THEN [thrown |-> "MessageExpiredError",
                store |-> IF PreserveSessionOrdering(cfg, obd)
                          THEN removeScheduledEntry(st, obd.sessionId, obd.sequenceNumber)
                          ELSE st,
                timeToLive |-> undefined]
          ELSE [thrown |-> "none", store |-> st, timeToLive |-> timeToLive]
  ELSE [thrown |-> "none", store |-> st, timeToLive |-> undefined]

\* Variant: preserveExpiresAt is not consulted.
applyTtlIfNeeded_FlagIgnored(st, cfg, context, t) ==
  LET obd == context.originalBindingData IN
  IF obd.expiresAtUtc # undefined
  THEN LET expiryDateTime == fromZonedTime(obd.expiresAtUtc, "UTC")
           timeToLive == expiryDateTime - t
       IN IF timeToLive <= 0
          THEN [thrown |-> "MessageExpiredError",
                store |-> IF PreserveSessionOrdering(cfg, obd)
                          THEN removeScheduledEntry(st, obd.sessionId, obd.sequenceNumber)
                          ELSE st,
                timeToLive |-> undefined]
          ELSE [thrown |-> "none", store |-> st, timeToLive |-> timeToLive]
  ELSE [thrown |-> "none", store |-> st, timeToLive |-> undefined]

\* Variant: a message counts as expired only after its expiry, not at it.
applyTtlIfNeeded_ExpiredOnlyAfter(st, cfg, context, t) ==
  LET obd == context.originalBindingData IN
  IF cfg.preserveExpiresAt # "false" /\ obd.expiresAtUtc # undefined
  THEN LET expiryDateTime == fromZonedTime(obd.expiresAtUtc, "UTC")
           timeToLive == expiryDateTime - t
       IN IF timeToLive < 0
          THEN [thrown |-> "MessageExpiredError",
                store |-> IF PreserveSessionOrdering(cfg, obd)
                          THEN removeScheduledEntry(st, obd.sessionId, obd.sequenceNumber)
                          ELSE st,
                timeToLive |-> undefined]
          ELSE [thrown |-> "none", store |-> st, timeToLive |-> timeToLive]
  ELSE [thrown |-> "none", store |-> st, timeToLive |-> undefined]

applyTtlIfNeeded(st, cfg, context, t) ==
  LET obd == context.originalBindingData IN
  IF cfg.preserveExpiresAt # "false" /\ obd.expiresAtUtc # undefined
  THEN LET expiryDateTime == fromZonedTime(obd.expiresAtUtc, "UTC")
           timeToLive == expiryDateTime - t
       IN IF timeToLive <= 0
          THEN [thrown |-> "MessageExpiredError",
                store |-> IF PreserveSessionOrdering(cfg, obd)
                          THEN removeScheduledEntry(st, obd.sessionId, obd.sequenceNumber)
                          ELSE st,
                timeToLive |-> undefined]
          ELSE [thrown |-> "none", store |-> st, timeToLive |-> timeToLive]
  ELSE [thrown |-> "none", store |-> st, timeToLive |-> undefined]

\* Variant: the republished message is sent without a session.
resendMessage_NoSession(st, cfg, context, wrappedMessage, scheduledTime, t) ==
  LET obd == context.originalBindingData
      ttl == applyTtlIfNeeded(st, cfg, context, t)
      serviceBusMessage ==
        [body |-> wrappedMessage, contentType |-> "application/json",
         scheduledEnqueueTimeUtc |-> scheduledTime, sessionId |-> undefinedString,
         timeToLive |-> ttl.timeToLive]
  IN IF ttl.thrown # "none"
     THEN [thrown |-> ttl.thrown, store |-> ttl.store, serviceBusMessage |-> NoMessage]
     ELSE [thrown |-> "none",
           store |-> IF cfg.preserveSessionOrdering = "true"
                        /\ (ttl.timeToLive = undefined \/ ttl.timeToLive > 1)
                     THEN addScheduledEntry(ttl.store, obd.sessionId, obd.sequenceNumber,
                                            scheduledTime)
                     ELSE ttl.store,
           serviceBusMessage |-> serviceBusMessage]

resendMessage(st, cfg, context, wrappedMessage, scheduledTime, t) ==
  LET obd == context.originalBindingData
      ttl == applyTtlIfNeeded(st, cfg, context, t)
      serviceBusMessage ==
        [body |-> wrappedMessage, contentType |-> "application/json",
         scheduledEnqueueTimeUtc |-> scheduledTime, sessionId |-> obd.sessionId,
         timeToLive |-> ttl.timeToLive]
  IN IF ttl.thrown # "none"
     THEN [thrown |-> ttl.thrown, store |-> ttl.store, serviceBusMessage |-> NoMessage]
     ELSE [thrown |-> "none",
           store |-> IF cfg.preserveSessionOrdering = "true"
                        /\ (ttl.timeToLive = undefined \/ ttl.timeToLive > 1)
                     THEN addScheduledEntry(ttl.store, obd.sessionId, obd.sequenceNumber,
                                            scheduledTime)
                     ELSE ttl.store,
           serviceBusMessage |-> serviceBusMessage]

\* Variant: on exhaustion the handler's own error is thrown on.
throwErrorIfMaxRetriesReached_Rethrow(st, cfg, context, preserveSessionOrdering) ==
  IF context.publishCount > cfg.maxRetries
  THEN [thrown |-> "HandlerError",
        store |-> IF preserveSessionOrdering
                  THEN removeScheduledEntry(st, context.originalBindingData.sessionId,
                                            context.originalBindingData.sequenceNumber)
                  ELSE st]
  ELSE [thrown |-> "none", store |-> st]

\* Variant: one more retry is granted before the error is thrown.
throwErrorIfMaxRetriesReached_LateByOne(st, cfg, context, preserveSessionOrdering) ==
  IF context.publishCount > cfg.maxRetries + 1
  THEN [thrown |-> "MaxRetriesReachedError",
        store |-> IF preserveSessionOrdering
                  THEN removeScheduledEntry(st, context.originalBindingData.sessionId,
                                            context.originalBindingData.sequenceNumber)
                  ELSE st]
  ELSE [thrown |-> "none", store |-> st]

\* Variant: the error is thrown one delivery early.
throwErrorIfMaxRetriesReached_EarlyByOne(st, cfg, context, preserveSessionOrdering) ==
  IF context.publishCount >= cfg.maxRetries
  THEN [thrown |-> "MaxRetriesReachedError",
        store |-> IF preserveSessionOrdering
                  THEN removeScheduledEntry(st, context.originalBindingData.sessionId,
                                            context.originalBindingData.sequenceNumber)
                  ELSE st]
  ELSE [thrown |-> "none", store |-> st]

\* Variant: the original expiry is looked at before the retry count.
throwErrorIfMaxRetriesReached_ExpiryFirst(st, cfg, context, preserveSessionOrdering) ==
  LET expired == applyTtlIfNeeded(st, cfg, context, now)
  IN IF expired.thrown # "none"
     THEN [thrown |-> expired.thrown, store |-> expired.store]
     ELSE IF context.publishCount > cfg.maxRetries
     THEN [thrown |-> "MaxRetriesReachedError",
           store |-> IF preserveSessionOrdering
                     THEN removeScheduledEntry(st, context.originalBindingData.sessionId,
                                               context.originalBindingData.sequenceNumber)
                     ELSE st]
     ELSE [thrown |-> "none", store |-> st]

throwErrorIfMaxRetriesReached(st, cfg, context, preserveSessionOrdering) ==
  IF context.publishCount > cfg.maxRetries
  THEN [thrown |-> "MaxRetriesReachedError",
        store |-> IF preserveSessionOrdering
                  THEN removeScheduledEntry(st, context.originalBindingData.sessionId,
                                            context.originalBindingData.sequenceNumber)
                  ELSE st]
  ELSE [thrown |-> "none", store |-> st]

\* Variant: the delay is computed for the publish count of the republished
\* message, not of the failed delivery.
resendWithDelay_AttemptOfRepublish(st, cfg, context, wrappedMessage, t, random) ==
  LET backoff == calculateBackoffSeconds(cfg, context.publishCount, random)
      scheduledTime == t + backoff.value * MsPerSecond
      republished == [wrappedMessage EXCEPT !.publishCount = @ + 1]
  IN IF backoff.thrown # "none"
     THEN [thrown |-> backoff.thrown, store |-> st, serviceBusMessage |-> NoMessage]
     ELSE resendMessage(st, cfg, context, republished, scheduledTime, t)

\* Variant: the envelope is republished without incrementing publishCount.
resendWithDelay_NoIncrement(st, cfg, context, wrappedMessage, t, random) ==
  LET backoff == calculateBackoffSeconds(cfg, context.publishCount - 1, random)
      scheduledTime == t + backoff.value * MsPerSecond
  IN IF backoff.thrown # "none"
     THEN [thrown |-> backoff.thrown, store |-> st, serviceBusMessage |-> NoMessage]
     ELSE resendMessage(st, cfg, context, wrappedMessage, scheduledTime, t)

resendWithDelay(st, cfg, context, wrappedMessage, t, random) ==
  LET backoff == calculateBackoffSeconds(cfg, context.publishCount - 1, random)
      scheduledTime == t + backoff.value * MsPerSecond
      republished == [wrappedMessage EXCEPT !.publishCount = @ + 1]
  IN IF backoff.thrown # "none"
     THEN [thrown |-> backoff.thrown, store |-> st, serviceBusMessage |-> NoMessage]
     ELSE resendMessage(st, cfg, context, republished, scheduledTime, t)

\* Variant: a message past its original expiry is rejected on arrival.
rescheduleForSessionOrderingIfNeeded_ExpiryOnArrival(st, cfg, context, wrappedMessage, t) ==
  LET expired == applyTtlIfNeeded(st, cfg, context, t)
  IN [rescheduled |-> FALSE, thrown |-> expired.thrown, store |-> expired.store,
      serviceBusMessage |-> NoMessage]

\* Variant: a deferral counts as a publish of its own.
rescheduleForSessionOrderingIfNeeded_CountsPublish(st, cfg, context, wrappedMessage, t) ==
  LET sessionId == context.originalBindingData.sessionId
      sequenceNumber == context.originalBindingData.sequenceNumber
      preserveOrdering == PreserveSessionOrdering(cfg, context.originalBindingData)
      incrementMs == OrDefault(cfg.sessionOrderingIncrementMs, DefaultSessionOrderingIncrementMs)
      latestLower == getLatestScheduledTimeForLowerSequence(st, sessionId, sequenceNumber)
      scheduledTime == latestLower + incrementMs
      resent == resendMessage(addScheduledEntry(st, sessionId, sequenceNumber, scheduledTime),
                              cfg, context, [wrappedMessage EXCEPT !.publishCount = @ + 1],
                              scheduledTime, t)
  IN IF preserveOrdering /\ latestLower # undefined /\ latestLower > t
     THEN [rescheduled |-> TRUE, thrown |-> resent.thrown, store |-> resent.store,
           serviceBusMessage |-> resent.serviceBusMessage]
     ELSE [rescheduled |-> FALSE, thrown |-> "none", store |-> st,
           serviceBusMessage |-> NoMessage]

rescheduleForSessionOrderingIfNeeded(st, cfg, context, wrappedMessage, t) ==
  LET sessionId == context.originalBindingData.sessionId
      sequenceNumber == context.originalBindingData.sequenceNumber
      preserveOrdering == PreserveSessionOrdering(cfg, context.originalBindingData)
      incrementMs == OrDefault(cfg.sessionOrderingIncrementMs, DefaultSessionOrderingIncrementMs)
      latestLower == getLatestScheduledTimeForLowerSequence(st, sessionId, sequenceNumber)
      scheduledTime == latestLower + incrementMs
      resent == resendMessage(addScheduledEntry(st, sessionId, sequenceNumber, scheduledTime),
                              cfg, context, wrappedMessage, scheduledTime, t)
  IN IF preserveOrdering /\ latestLower # undefined /\ latestLower > t
     THEN [rescheduled |-> TRUE, thrown |-> resent.thrown, store |-> resent.store,
           serviceBusMessage |-> resent.serviceBusMessage]
     ELSE [rescheduled |-> FALSE, thrown |-> "none", store |-> st,
           serviceBusMessage |-> NoMessage]

(***************************************************************************)
(* The queue, the host and the in-flight invocations.                      *)
(***************************************************************************)
Idle ==
  [pc |-> "idle",
   context |-> [publishCount |-> undefined, originalBindingData |-> NoBindingData,
                triggerMetadata |-> NoBindingData],
   unwrappedMessage |-> "none",
   wrappedMessage |-> RawBody("none"),
   preserveSessionOrdering |-> FALSE,
   rescheduled |-> FALSE,
   handlerCalled |-> FALSE,
   handlerFailed |-> FALSE,
   serviceBusMessage |-> NoMessage,
   published |-> 0]

\* No queue message: the `delivered` of a step that is not a delivery.
NoDelivery ==
  [messageId |-> undefined, sequenceNumber |-> undefined, sessionId |-> undefinedString,
   body |-> RawBody("none"), scheduledEnqueueTimeUtc |-> undefined, timeToLive |-> undefined]

NoStep ==
  [action |-> "none", payload |-> "none", outcome |-> "none", inv |-> Idle,
   storeBefore |-> <<>>, lowerAtArrival |-> undefined, delivered |-> NoDelivery]

\* The latest scheduled time among the lower-sequence entries of a session,
\* or undefined: what the store holds, stated without the store's code.
MaxOfSet(S) ==
  IF S = {} THEN undefined
  ELSE CHOOSE y \in S : \A z \in S : y >= z

LowerTimes(st, sessionId, sequenceNumber) ==
  IF sessionId \notin DOMAIN st THEN {}
  ELSE {st[sessionId][i].scheduledTime :
          i \in {j \in 1..Len(st[sessionId]) :
                   /\ st[sessionId][j].sequenceNumber # undefined
                   /\ sequenceNumber # undefined
                   /\ st[sessionId][j].sequenceNumber < sequenceNumber}}

\* The metadata the host hands to the trigger for a queued message: the
\* message's own id, sequence number and times, not those of the original.
TriggerMetadata(m) ==
  [messageId |-> m.messageId,
   enqueuedTimeUtc |-> m.scheduledEnqueueTimeUtc,
   expiresAtUtc |-> IF m.timeToLive = undefined THEN undefined
                    ELSE m.scheduledEnqueueTimeUtc + m.timeToLive,
   sessionId |-> m.sessionId,
   sequenceNumber |-> IF hostSuppliesSequenceNumber THEN m.sequenceNumber ELSE undefined]

\* ServiceBusSender.scheduleMessages: the queue stores the message under a
\* fresh id and sequence number.
Enqueued(serviceBusMessage, sequenceNumber) ==
  [messageId |-> sequenceNumber,
   sequenceNumber |-> sequenceNumber,
   sessionId |-> serviceBusMessage.sessionId,
   body |-> serviceBusMessage.body,
   scheduledEnqueueTimeUtc |-> serviceBusMessage.scheduledEnqueueTimeUtc,
   timeToLive |-> serviceBusMessage.timeToLive]

InFlight == {p \in Payloads : inv[p].pc # "idle"}

(***************************************************************************)
(* Configurations and client messages the runs start from.                 *)
(***************************************************************************)
ClientTimeToLive == 1500

Configurations ==
  [maxRetries : 0..MaxRetriesBound,
   retryStrategy : {"exponential", "unknown"},
   delaySeconds : {1 * ConfigUnit},
   maxDelaySeconds : {undefined},
   exponentialFactor : {undefined},
   linearIncreaseSeconds : {undefined},
   jitter : {undefined},
   preserveSessionOrdering : {"true", "undefined"},
   sessionOrderingIncrementMs : {500},
   preserveExpiresAt : {"undefined", "false"}]

\* <<session of p1, session of p2, whether the host supplies sequenceNumber>>
Sessions ==
  {<<"A", "A", TRUE>>, <<"A", "B", TRUE>>, <<undefinedString, undefinedString, TRUE>>,
   <<"A", "A", FALSE>>}

ClientMessage(n, payload, sessionId, timeToLive) ==
  [messageId |-> n, sequenceNumber |-> n, sessionId |-> sessionId,
   body |-> RawBody(payload), scheduledEnqueueTimeUtc |-> 0, timeToLive |-> timeToLive]

\* Starts that differ only in what the configuration never looks at are
\* taken once: without preserveSessionOrdering the sessions only matter as
\* present or absent, and without an expiry preserveExpiresAt is never read.
Init ==
  /\ config \in Configurations
  /\ now = 0
  /\ store = <<>>
  /\ \E sessions \in Sessions, timeToLive \in {undefined, ClientTimeToLive} :
       /\ config.preserveSessionOrdering # "true"
            => sessions \in {<<"A", "A", TRUE>>, <<undefinedString, undefinedString, TRUE>>}
       /\ config.preserveExpiresAt = "false" => timeToLive # undefined
       /\ hostSuppliesSequenceNumber = sessions[3]
       /\ queue = {ClientMessage(1, "p1", sessions[1], timeToLive),
                   ClientMessage(2, "p2", sessions[2], timeToLive)}
  /\ nextSequenceNumber = 3
  /\ inv = [p \in Payloads |-> Idle]
  /\ last = NoStep
  /\ firstBindingData = [p \in Payloads |-> NoBindingData]
  /\ handlerCalls = [p \in Payloads |-> 0]
  /\ handlerFailures = [p \in Payloads |-> 0]
  /\ retryPublishes = [p \in Payloads |-> 0]
  /\ phase = [p \in Payloads |-> "queued"]

(***************************************************************************)
(* executeWithRetries, cut at its awaits.  A step that ends the invocation *)
(* records its outcome; the host then settles the delivered message        *)
(* (completed on return, dead-lettered on an error).                       *)
(***************************************************************************)
Step(action, p, outcome, record) ==
  /\ last' = [action |-> action, payload |-> p, outcome |-> outcome, inv |-> record,
              storeBefore |-> store, lowerAtArrival |-> undefined,
              delivered |-> NoDelivery]
  /\ inv' = [inv EXCEPT ![p] = IF outcome = "pending" THEN record ELSE Idle]

\* Lines 85-100: the host delivers m; the context is built, the ordering check
\* runs and either the deferral's publish or the handler is started.  (The
\* await of line 94 only yields to microtasks already queued, and a delivery
\* starts with none queued, so nothing of another invocation runs before
\* line 100.)
Invoke(m) ==
  /\ m \in queue
  /\ m.scheduledEnqueueTimeUtc <= now
  /\ Cardinality(InFlight) < MaxInFlight
  /\ LET built == buildRetryInvocationContextAndMessage(TriggerMetadata(m), m.body)
         context == built.context
         payload == built.unwrappedMessage
         obd == context.originalBindingData
         wrappedMessage == [message |-> payload, originalBindingData |-> obd,
                            publishCount |-> context.publishCount]
         r == rescheduleForSessionOrderingIfNeeded(store, config, context, wrappedMessage, now)
         started == [Idle EXCEPT
                       !.context = context,
                       !.unwrappedMessage = payload,
                       !.wrappedMessage = wrappedMessage,
                       !.preserveSessionOrdering = PreserveSessionOrdering(config, obd),
                       !.rescheduled = r.rescheduled]
         record == IF r.thrown # "none" THEN [started EXCEPT !.pc = "threw"]
                   ELSE IF r.rescheduled
                   THEN [started EXCEPT !.pc = "publishing",
                                        !.serviceBusMessage = r.serviceBusMessage,
                                        !.published = 1]
                   ELSE [started EXCEPT !.pc = "handler", !.handlerCalled = TRUE]
     IN /\ queue' = queue \ {m}
        /\ store' = r.store
        /\ firstBindingData' = IF IsWrapped(m.body) THEN firstBindingData
                               ELSE [firstBindingData EXCEPT ![payload] = obd]
        /\ last' = [action |-> "Invoke", payload |-> payload,
                    outcome |-> IF r.thrown # "none" THEN r.thrown ELSE "pending",
                    inv |-> record, storeBefore |-> store,
                    lowerAtArrival |-> MaxOfSet(LowerTimes(store, obd.sessionId,
                                                           obd.sequenceNumber)),
                    delivered |-> m]
        /\ inv' = [inv EXCEPT ![payload] = IF r.thrown # "none" THEN Idle ELSE record]
        /\ phase' = IF r.thrown # "none" THEN [phase EXCEPT ![payload] = "expired"]
                    ELSE phase
        /\ handlerCalls' = IF record.handlerCalled
                           THEN [handlerCalls EXCEPT ![payload] = @ + 1]
                           ELSE handlerCalls
  /\ UNCHANGED <<config, hostSuppliesSequenceNumber, now, nextSequenceNumber,
                 handlerFailures, retryPublishes>>

\* Lines 100-104: the handler's promise resolves.
HandlerSucceeds(p) ==
  /\ inv[p].pc = "handler"
  /\ LET obd == inv[p].context.originalBindingData IN
     store' = IF inv[p].preserveSessionOrdering
              THEN removeScheduledEntry(store, obd.sessionId, obd.sequenceNumber)
              ELSE store
  /\ Step("HandlerSucceeds", p, "returned", [inv[p] EXCEPT !.pc = "returned"])
  /\ phase' = [phase EXCEPT ![p] = "succeeded"]
  /\ UNCHANGED <<config, hostSuppliesSequenceNumber, now, queue, nextSequenceNumber,
                 firstBindingData, handlerCalls, handlerFailures, retryPublishes>>

\* Lines 105-108: the handler's promise rejects.
TotalFailures == handlerFailures["p1"] + handlerFailures["p2"]

\* Variant: the catch block calls the handler again in the same invocation.
HandlerFails_RetriesInProcess(p) ==
  /\ inv[p].pc = "handler"
  /\ TotalFailures < MaxFailures
  /\ handlerFailures' = [handlerFailures EXCEPT ![p] = @ + 1]
  /\ handlerCalls' = [handlerCalls EXCEPT ![p] = @ + 1]
  /\ Step("HandlerFails", p, "pending", [inv[p] EXCEPT !.handlerFailed = TRUE])
  /\ UNCHANGED <<config, hostSuppliesSequenceNumber, now, store, queue, nextSequenceNumber,
                 firstBindingData, retryPublishes, phase>>

HandlerFails(p) ==
  /\ inv[p].pc = "handler"
  /\ TotalFailures < MaxFailures
  /\ LET failed == [inv[p] EXCEPT !.handlerFailed = TRUE]
         reached == throwErrorIfMaxRetriesReached(store, config, inv[p].context,
                                                  inv[p].preserveSessionOrdering)
     IN /\ handlerFailures' = [handlerFailures EXCEPT ![p] = @ + 1]
        /\ IF reached.thrown # "none"
           THEN /\ store' = reached.store
                /\ Step("HandlerFails", p, reached.thrown, [failed EXCEPT !.pc = "threw"])
                /\ phase' = [phase EXCEPT ![p] = "exhausted"]
                /\ UNCHANGED retryPublishes
           ELSE \E random \in IF OrDefault(config.jitter, DefaultJitter) > 0
                              THEN 0..(RandomSteps - 1) ELSE {0} :
                  LET r == resendWithDelay(reached.store, config, inv[p].context,
                                           inv[p].wrappedMessage, now, random)
                  IN /\ store' = r.store
                     /\ IF r.thrown # "none"
                        THEN /\ Step("HandlerFails", p, r.thrown, [failed EXCEPT !.pc = "threw"])
                             /\ phase' = [phase EXCEPT ![p] =
                                            IF r.thrown = "MessageExpiredError"
                                            THEN "expired" ELSE "misconfigured"]
                             /\ UNCHANGED retryPublishes
                        ELSE /\ Step("HandlerFails", p, "pending",
                                     [failed EXCEPT !.pc = "publishing",
                                                    !.wrappedMessage = r.serviceBusMessage.body,
                                                    !.serviceBusMessage = r.serviceBusMessage,
                                                    !.published = 1])
                             /\ phase' = [phase EXCEPT ![p] = "failed"]
                             /\ retryPublishes' = [retryPublishes EXCEPT ![p] = @ + 1]
  /\ UNCHANGED <<config, hostSuppliesSequenceNumber, now, queue, nextSequenceNumber,
                 firstBindingData, handlerCalls>>

\* Line 144: scheduleMessages resolves; the queue holds the new message and
\* the invocation returns.
PublishAcknowledged(p) ==
  /\ inv[p].pc = "publishing"
  /\ queue' = queue \cup {Enqueued(inv[p].serviceBusMessage, nextSequenceNumber)}
  /\ nextSequenceNumber' = nextSequenceNumber + 1
  /\ Step("PublishAcknowledged", p, "returned", [inv[p] EXCEPT !.pc = "returned"])
  /\ UNCHANGED <<config, hostSuppliesSequenceNumber, now, store, firstBindingData,
                 handlerCalls, handlerFailures, retryPublishes, phase>>

\* Line 144: scheduleMessages rejects; the rejection escapes the invocation.
PublishRejected(p) ==
  /\ inv[p].pc = "publishing"
  /\ Step("PublishRejected", p, "PublishError", [inv[p] EXCEPT !.pc = "threw"])
  /\ phase' = [phase EXCEPT ![p] = "lost"]
  /\ UNCHANGED <<config, hostSuppliesSequenceNumber, now, store, queue, nextSequenceNumber,
                 firstBindingData, handlerCalls, handlerFailures, retryPublishes>>

(***************************************************************************)
(* The clock moves to the next instant at which something can change: a    *)
(* scheduled time, an expiry, or the millisecond before an expiry.         *)
(***************************************************************************)
StoreTimes ==
  UNION {{store[k][i].scheduledTime : i \in 1..Len(store[k])} : k \in DOMAIN store}

Expiries ==
  {TriggerMetadata(m).expiresAtUtc : m \in {x \in queue : ~IsWrapped(x.body)}}
  \cup {m.body.originalBindingData.expiresAtUtc : m \in queue}
  \cup {inv[p].context.originalBindingData.expiresAtUtc : p \in Payloads}

Instants ==
  {m.scheduledEnqueueTimeUtc : m \in queue}
  \cup {inv[p].serviceBusMessage.scheduledEnqueueTimeUtc : p \in Payloads}
  \cup StoreTimes
  \cup Expiries \cup {t - 1 : t \in Expiries}

Advance ==
  /\ \E t \in Instants :
       /\ t > now
       /\ \A u \in Instants : u > now => t <= u
       /\ now' = t
  /\ last' = NoStep
  /\ UNCHANGED <<config, hostSuppliesSequenceNumber, store, queue, nextSequenceNumber, inv,
                 firstBindingData, handlerCalls, handlerFailures, retryPublishes, phase>>

Next ==
  \/ \E m \in queue : Invoke(m)
  \/ \E p \in Payloads : HandlerSucceeds(p)
  \/ \E p \in Payloads : HandlerFails(p)
  \/ \E p \in Payloads : PublishAcknowledged(p)
  \/ \E p \in Payloads : PublishRejected(p)
  \/ Advance

Spec == Init /\ [][Next]_vars

(***************************************************************************)
(* calculateBackoffSeconds on its own: a configuration is drawn and the    *)
(* function is called with any retry count and any draw of Math.random().  *)
(***************************************************************************)
BackoffConfigurations ==
  [maxRetries : {1},
   retryStrategy : {undefinedString, "fixed", "exponential", "linear", "unknown"},
   delaySeconds : {-3, 0, 1, 2, 3},
   maxDelaySeconds : {undefined, 5, 6},
   exponentialFactor : {undefined, 3, 4},
   linearIncreaseSeconds : {undefined, 1, 2},
   jitter : {undefined, 0, 50},
   preserveSessionOrdering : {"undefined"},
   sessionOrderingIncrementMs : {undefined},
   preserveExpiresAt : {"undefined"}]

InitBackoff ==
  /\ config \in BackoffConfigurations
  /\ hostSuppliesSequenceNumber = TRUE
  /\ now = 0
  /\ store = <<>>
  /\ queue = {}
  /\ nextSequenceNumber = 1
  /\ inv = [p \in Payloads |-> Idle]
  /\ last = NoStep
  /\ firstBindingData = [p \in Payloads |-> NoBindingData]
  /\ handlerCalls = [p \in Payloads |-> 0]
  /\ handlerFailures = [p \in Payloads |-> 0]
  /\ retryPublishes = [p \in Payloads |-> 0]
  /\ phase = [p \in Payloads |-> "queued"]

CallCalculateBackoffSeconds ==
  /\ \E retryCount \in 0..MaxRetryCount, random \in 0..(RandomSteps - 1) :
       last' = [action |-> "calculateBackoffSeconds", retryCount |-> retryCount,
                random |-> random,
                result |-> calculateBackoffSeconds(config, retryCount, random)]
  /\ UNCHANGED <<config, hostSuppliesSequenceNumber, now, store, queue, nextSequenceNumber,
                 inv, firstBindingData, handlerCalls, handlerFailures, retryPublishes, phase>>

NextBackoff == CallCalculateBackoffSeconds

SpecBackoff == InitBackoff /\ [][NextBackoff]_vars

(***************************************************************************)
(* The session ordering store on its own: its four exported functions are  *)
(* called in any order with any session, sequence number and time.         *)
(***************************************************************************)
MaxEntries == 3

MaxSequenceNumber == 3

StoreKeys == {"A", "B"}

ScheduledTimes == {1 * MsPerSecond, 2 * MsPerSecond, 3 * MsPerSecond}

InitStore ==
  /\ config \in {c \in BackoffConfigurations :
                   /\ c.retryStrategy = undefinedString /\ c.delaySeconds = 1
                   /\ c.maxDelaySeconds = undefined /\ c.exponentialFactor = undefined
                   /\ c.linearIncreaseSeconds = undefined /\ c.jitter = undefined}
  /\ hostSuppliesSequenceNumber = TRUE
  /\ now = 0
  /\ store = <<>>
  /\ queue = {}
  /\ nextSequenceNumber = 1
  /\ inv = [p \in Payloads |-> Idle]
  /\ last = NoStep
  /\ firstBindingData = [p \in Payloads |-> NoBindingData]
  /\ handlerCalls = [p \in Payloads |-> 0]
  /\ handlerFailures = [p \in Payloads |-> 0]
  /\ retryPublishes = [p \in Payloads |-> 0]
  /\ phase = [p \in Payloads |-> "queued"]

StoreCall(action, sessionId, sequenceNumber, scheduledTime, result) ==
  /\ last' = [action |-> action, sessionId |-> sessionId, sequenceNumber |-> sequenceNumber,
              scheduledTime |-> scheduledTime, result |-> result, storeBefore |-> store]
  /\ UNCHANGED <<config, hostSuppliesSequenceNumber, now, queue, nextSequenceNumber, inv,
                 firstBindingData, handlerCalls, handlerFailures, retryPublishes, phase>>

CallGetLatestScheduledTimeForLowerSequence ==
  \E sessionId \in StoreKeys, sequenceNumber \in 1..(MaxSequenceNumber + 1) :
    /\ store' = store
    /\ StoreCall("getLatestScheduledTimeForLowerSequence", sessionId, sequenceNumber,
                 undefined,
                 getLatestScheduledTimeForLowerSequence(store, sessionId, sequenceNumber))

CallAddScheduledEntry ==
  \E sessionId \in StoreKeys, sequenceNumber \in 1..MaxSequenceNumber,
     scheduledTime \in ScheduledTimes :
    /\ StoreSize(store) < MaxEntries
    /\ store' = addScheduledEntry(store, sessionId, sequenceNumber, scheduledTime)
    /\ StoreCall("addScheduledEntry", sessionId, sequenceNumber, scheduledTime, undefined)

CallRemoveScheduledEntry ==
  \E sessionId \in StoreKeys, sequenceNumber \in 1..MaxSequenceNumber :
    /\ store' = removeScheduledEntry(store, sessionId, sequenceNumber)
    /\ StoreCall("removeScheduledEntry", sessionId, sequenceNumber, undefined, undefined)

CallClearSession ==
  \E sessionId \in StoreKeys :
    /\ store' = clearSession(store, sessionId)
    /\ StoreCall("clearSession", sessionId, undefined, undefined, undefined)

NextStore ==
  \/ CallGetLatestScheduledTimeForLowerSequence
  \/ CallAddScheduledEntry
  \/ CallRemoveScheduledEntry
  \/ CallClearSession

SpecStore == InitStore /\ [][NextStore]_vars

(***************************************************************************)
(* Properties.                                                             *)
(***************************************************************************)
IsExpired(originalBindingData, t) ==
  /\ originalBindingData.expiresAtUtc # undefined
  /\ originalBindingData.expiresAtUtc <= t

\* retryStrategy is of the declared type RetryStrategy (or left out)
DeclaredStrategy ==
  config.retryStrategy \in {undefinedString, "fixed", "exponential", "linear"}

\* C1: whenever the handler fails on a delivery whose publishCount is greater
\* than maxRetries, the invocation fails with MaxRetriesReachedError and has
\* issued no publish.
C1_ExhaustedFailsWithoutPublish ==
  (last.action = "HandlerFails" /\ last.inv.context.publishCount > config.maxRetries)
    => /\ last.outcome = "MaxRetriesReachedError"
       /\ last.inv.published = 0
       /\ last.inv.serviceBusMessage = NoMessage
       /\ inv[last.payload].pc = "idle"

C1_Witness ==
  /\ last.action = "HandlerFails"
  /\ last.inv.context.publishCount > config.maxRetries
  /\ last.inv.context.publishCount > 1

C3_OriginalBindingDataPreserved ==
  /\ \A m \in queue :
       IsWrapped(m.body) => m.body.originalBindingData = firstBindingData[m.body.message]
  /\ \A p \in Payloads :
       inv[p].pc = "publishing"
         => inv[p].serviceBusMessage.body.originalBindingData = firstBindingData[p]

\* a republished envelope that was itself delivered as an envelope, whose own
\* trigger metadata differs from the original in every field it could
C3_Witness ==
  \E m \in queue :
    /\ IsWrapped(m.body)
    /\ m.body.publishCount >= 3
    /\ m.body.originalBindingData.sessionId # undefinedString
    /\ m.body.originalBindingData.expiresAtUtc # undefined
    /\ TriggerMetadata(m).messageId # m.body.originalBindingData.messageId
    /\ TriggerMetadata(m).expiresAtUtc # m.body.originalBindingData.expiresAtUtc
    /\ TriggerMetadata(m).sequenceNumber # m.body.originalBindingData.sequenceNumber

\* The chain of p has ended: no delivery of it is in flight or queued.
ChainEnded(p) ==
  /\ inv[p].pc = "idle"
  /\ \A m \in queue : m.body.message # p

AlwaysFailed(p) == handlerCalls[p] > 0 /\ handlerFailures[p] = handlerCalls[p]

SameSessionOrdered(p, q) ==
  /\ PreserveSessionOrdering(config, firstBindingData[p])
  /\ PreserveSessionOrdering(config, firstBindingData[q])
  /\ firstBindingData[p].sessionId = firstBindingData[q].sessionId
  /\ firstBindingData[q].sequenceNumber < firstBindingData[p].sequenceNumber

\* C5, as stated: with ordering active, the handler of a message is never
\* invoked while a lower-sequence message of its session has failed and has
\* not yet succeeded, been exhausted or expired.
C5_HandlerNeverOvertakesFailedLower ==
  (last.action = "Invoke" /\ last.inv.handlerCalled)
    => \A q \in Payloads : SameSessionOrdered(last.payload, q) => phase[q] # "failed"

\* C6, as stated: when ordering is active and the store holds at arrival a
\* lower-sequence entry of the session scheduled strictly in the future, the
\* handler is not called and the envelope is republished, publishCount
\* unchanged, at the latest such time plus sessionOrderingIncrementMs.
C6_FutureLowerEntryDefers ==
  (/\ last.action = "Invoke"
   /\ PreserveSessionOrdering(config, last.inv.context.originalBindingData)
   /\ last.lowerAtArrival # undefined
   /\ last.lowerAtArrival > now)
    => /\ ~last.inv.handlerCalled
       /\ last.outcome = "pending"
       /\ last.inv.published = 1
       /\ last.inv.serviceBusMessage.body =
            [message |-> last.payload,
             originalBindingData |-> last.inv.context.originalBindingData,
             publishCount |-> last.inv.context.publishCount]
       /\ last.inv.serviceBusMessage.scheduledEnqueueTimeUtc =
            last.lowerAtArrival
              + OrDefault(config.sessionOrderingIncrementMs, DefaultSessionOrderingIncrementMs)

\* C7, as stated: while ordering is not active for a message (flag off, or
\* sessionId or sequenceNumber absent) no step of its invocations changes the
\* store.
C7_InactiveOrderingLeavesStore ==
  (/\ last.action # "none"
   /\ ~PreserveSessionOrdering(config, last.inv.context.originalBindingData))
    => store = last.storeBefore

\* The entries the store holds for a (sessionId, sequenceNumber)
EntriesFor(st, sessionId, sequenceNumber) ==
  IF sessionId \notin DOMAIN st THEN {}
  ELSE {i \in 1..Len(st[sessionId]) : st[sessionId][i].sequenceNumber = sequenceNumber}

\* C8, as stated: with ordering active, after an invocation in which the
\* handler succeeded the store holds no entry for the message's
\* (sessionId, sequenceNumber).
C8_SuccessLeavesNoEntry ==
  (/\ last.action = "HandlerSucceeds"
   /\ PreserveSessionOrdering(config, last.inv.context.originalBindingData))
    => EntriesFor(store, last.inv.context.originalBindingData.sessionId,
                  last.inv.context.originalBindingData.sequenceNumber) = {}

\* C9: with preserveExpiresAt on and an original expiry recorded, a message
\* republished after a handler failure carries timeToLive = original expiry
\* minus now, strictly positive, the original expiry being that of the first
\* delivery on every hop.
C9_TimeToLiveFromOriginalExpiry ==
  (/\ last.action = "HandlerFails"
   /\ last.outcome = "pending"
   /\ config.preserveExpiresAt # "false"
   /\ firstBindingData[last.payload].expiresAtUtc # undefined)
    => /\ last.inv.serviceBusMessage.timeToLive
            = firstBindingData[last.payload].expiresAtUtc - now
       /\ last.inv.serviceBusMessage.timeToLive > 0

\* a retry of a retry: the hop's own expiry differs from the original one
C9_Witness ==
  /\ last.action = "HandlerFails"
  /\ last.outcome = "pending"
  /\ config.preserveExpiresAt # "false"
  /\ firstBindingData[last.payload].expiresAtUtc # undefined
  /\ last.inv.context.publishCount >= 2
  /\ last.inv.context.triggerMetadata.expiresAtUtc
       # firstBindingData[last.payload].expiresAtUtc
  /\ last.inv.context.triggerMetadata.expiresAtUtc > now

\* C10: with preserveExpiresAt on, when the handler fails with retries
\* remaining and the original expiry is at or before now (the retry strategy
\* being one of the declared ones), the invocation fails with
\* MessageExpiredError and has issued no publish.
C10_ExpiredRetryFails ==
  (/\ last.action = "HandlerFails"
   /\ DeclaredStrategy
   /\ last.inv.context.publishCount <= config.maxRetries
   /\ config.preserveExpiresAt # "false"
   /\ IsExpired(last.inv.context.originalBindingData, now))
    => /\ last.outcome = "MessageExpiredError"
       /\ last.inv.published = 0
       /\ last.inv.serviceBusMessage = NoMessage
       /\ inv[last.payload].pc = "idle"

\* the expiry is reached exactly (remaining time 0) and on a later instant
C10_Witness ==
  /\ last.action = "HandlerFails"
  /\ DeclaredStrategy
  /\ last.inv.context.publishCount <= config.maxRetries
  /\ config.preserveExpiresAt # "false"
  /\ last.inv.context.originalBindingData.expiresAtUtc = now
  /\ last.inv.context.publishCount >= 2

PreserveExpiry(originalBindingData) ==
  config.preserveExpiresAt # "false" /\ originalBindingData.expiresAtUtc # undefined

\* The step has handed a message to the publisher (retry or deferral)
Republishes == last.action \in {"Invoke", "HandlerFails"} /\ last.inv.published = 1

\* C11, as stated: with preserveExpiresAt on and an original expiry recorded,
\* no failure-driven retry is published with a scheduled time at or after the
\* original expiry.
C11_NoRetryScheduledPastExpiry ==
  (/\ last.action = "HandlerFails"
   /\ last.outcome = "pending"
   /\ PreserveExpiry(last.inv.context.originalBindingData))
    => last.inv.serviceBusMessage.scheduledEnqueueTimeUtc
         < last.inv.context.originalBindingData.expiresAtUtc

\* C12: when preserveExpiresAt is false or the original binding data records
\* no expiry, a republished message carries no timeToLive and no invocation
\* fails with MessageExpiredError, whatever the time.
C12_NoExpiryNoTimeToLive ==
  (last.action # "none" /\ ~PreserveExpiry(last.inv.context.originalBindingData))
    => /\ last.outcome # "MessageExpiredError"
       /\ Republishes => last.inv.serviceBusMessage.timeToLive = undefined
       /\ \A m \in queue :
            (IsWrapped(m.body) /\ ~PreserveExpiry(m.body.originalBindingData))
              => m.timeToLive = undefined

\* preserveExpiresAt false, the original expiry passed, and a retry published
C12_Witness ==
  /\ last.action = "HandlerFails"
  /\ last.inv.published = 1
  /\ config.preserveExpiresAt = "false"
  /\ IsExpired(last.inv.context.originalBindingData, now)

\* Ordering asks for a deferral at arrival: it is active and the store holds
\* a lower-sequence entry of the session strictly in the future.
DeferralDue ==
  /\ PreserveSessionOrdering(config, last.inv.context.originalBindingData)
  /\ last.lowerAtArrival # undefined
  /\ last.lowerAtArrival > now

\* C13: a delivered message whose original expiry has passed, and which
\* ordering does not defer, has its handler invoked; and when the handler of
\* such a message succeeds the invocation returns without error and without
\* publishing.
C13_ExpiredStillHandled ==
  /\ (/\ last.action = "Invoke"
      /\ IsExpired(last.inv.context.originalBindingData, now)
      /\ ~DeferralDue)
       => /\ last.inv.handlerCalled
          /\ last.outcome = "pending"
          /\ last.inv.published = 0
  /\ (/\ last.action = "HandlerSucceeds"
      /\ IsExpired(last.inv.context.originalBindingData, now))
       => /\ last.outcome = "returned"
          /\ last.inv.published = 0
          /\ last.inv.serviceBusMessage = NoMessage
          /\ queue = {m \in queue : m.body.message # last.payload}

C13_Witness ==
  /\ last.action = "HandlerSucceeds"
  /\ config.preserveExpiresAt # "false"
  /\ IsExpired(last.inv.context.originalBindingData, now)
  /\ last.inv.context.publishCount >= 2

\* C14: on arrival a body with a publishCount field is an envelope and
\* publishCount and originalBindingData are restored from it; any other body
\* is a first delivery with publishCount 1 and originalBindingData taken from
\* the trigger metadata (sessionId and sequenceNumber only when it has them);
\* the handler is called with the unwrapped payload and that context.
C14_EnvelopeRestoredOrSynthesized ==
  last.action = "Invoke"
    => LET body == last.delivered.body
           metadata == TriggerMetadata(last.delivered)
           context == last.inv.context
       IN /\ body.publishCount # undefined
               => /\ context.publishCount = body.publishCount
                  /\ context.originalBindingData = body.originalBindingData
          /\ body.publishCount = undefined
               => /\ context.publishCount = 1
                  /\ context.originalBindingData.messageId = last.delivered.messageId
                  /\ context.originalBindingData.enqueuedTimeUtc = metadata.enqueuedTimeUtc
                  /\ context.originalBindingData.expiresAtUtc = metadata.expiresAtUtc
                  /\ context.originalBindingData.sessionId = last.delivered.sessionId
                  /\ context.originalBindingData.sequenceNumber =
                       IF hostSuppliesSequenceNumber THEN last.delivered.sequenceNumber
                       ELSE undefined
          /\ context.triggerMetadata = metadata
          /\ last.inv.unwrappedMessage = body.message
          /\ last.inv.handlerCalled
               => /\ inv[last.payload].pc = "handler"
                  /\ inv[last.payload].unwrappedMessage = body.message
                  /\ inv[last.payload].context = context

\* an envelope on its third publish is delivered and handled
C14_Witness ==
  /\ last.action = "Invoke"
  /\ last.inv.handlerCalled
  /\ last.delivered.body.publishCount = 3
  /\ last.delivered.messageId # last.inv.context.originalBindingData.messageId

EngineErrors == {"MaxRetriesReachedError", "MessageExpiredError", "UnknownStrategyError"}

\* An invocation whose handler failed has ended with this step
FailedInvocationEnded == last.inv.handlerFailed /\ last.outcome \notin {"none", "pending"}

\* C15, as stated: every invocation in which the handler fails either returns
\* after republishing or fails with MaxRetriesReachedError,
\* MessageExpiredError or the unknown-strategy error.
C15_HandlerErrorContained ==
  FailedInvocationEnded
    => \/ last.outcome = "returned" /\ last.inv.published = 1
       \/ last.outcome \in EngineErrors

\* C15, amended: every invocation in which the handler fails either returns
\* after republishing, or fails with MaxRetriesReachedError,
\* MessageExpiredError or the unknown-strategy error, or fails with the error
\* of the publisher when the publish is rejected; never with the handler's.
C15_HandlerErrorContainedOrPublishFails ==
  FailedInvocationEnded
    => \/ last.outcome = "returned" /\ last.inv.published = 1
       \/ last.outcome \in EngineErrors /\ last.inv.published = 0
       \/ last.outcome = "PublishError" /\ last.action = "PublishRejected"

C15_Witness ==
  /\ last.inv.handlerFailed
  /\ last.action = "PublishRejected"
  /\ last.outcome = "PublishError"
  /\ last.inv.context.publishCount >= 2

\* C16: a retry published after a handler failure is scheduled at
\* now + calculateBackoffSeconds(config, publishCount - 1) seconds, publishCount
\* being that of the delivery that failed.
C16_RetryScheduledAfterBackoff ==
  (last.action = "HandlerFails" /\ last.outcome = "pending")
    => \E random \in 0..(RandomSteps - 1) :
         LET backoff == calculateBackoffSeconds(config, last.inv.context.publishCount - 1,
                                                random)
         IN /\ backoff.thrown = "none"
            /\ last.inv.serviceBusMessage.scheduledEnqueueTimeUtc
                 = now + backoff.value * MsPerSecond

\* the second retry: the delay differs from that of the first
C16_Witness ==
  /\ last.action = "HandlerFails"
  /\ last.outcome = "pending"
  /\ last.inv.context.publishCount = 2
  /\ last.inv.serviceBusMessage.scheduledEnqueueTimeUtc = now + 2 * MsPerSecond
  /\ now > 0

\* C20: with a retry strategy that is none of fixed, linear, exponential, a
\* handler failure with retries remaining is not retried: the invocation fails
\* with the unknown-strategy error, nothing is published and the store is left
\* as it was.
C20_UnknownStrategyNotRetried ==
  (/\ last.action = "HandlerFails"
   /\ ~DeclaredStrategy
   /\ last.inv.context.publishCount <= config.maxRetries)
    => /\ last.outcome = "UnknownStrategyError"
       /\ last.inv.published = 0
       /\ last.inv.serviceBusMessage = NoMessage
       /\ store = last.storeBefore
       /\ inv[last.payload].pc = "idle"
       /\ \A m \in queue : m.body.message # last.payload

\* ordering is active, so a retry would have added an entry
C20_Witness ==
  /\ last.action = "HandlerFails"
  /\ ~DeclaredStrategy
  /\ last.inv.context.publishCount <= config.maxRetries
  /\ PreserveSessionOrdering(config, last.inv.context.originalBindingData)
  /\ last.inv.context.originalBindingData.expiresAtUtc # undefined

\* C21: every message the engine hands to the publisher, for a retry or for a
\* deferral, and every envelope the queue holds, carries the sessionId of its
\* originalBindingData, which is that of the first delivery: the session of
\* the client's message when it had one, none when it had none.
C21_RepublishedKeepsSession ==
  /\ Republishes
       => /\ last.inv.serviceBusMessage.sessionId
               = last.inv.context.originalBindingData.sessionId
          /\ last.inv.serviceBusMessage.sessionId = firstBindingData[last.payload].sessionId
  /\ \A m \in queue :
       IsWrapped(m.body)
         => /\ m.sessionId = m.body.originalBindingData.sessionId
            /\ m.sessionId = firstBindingData[m.body.message].sessionId

\* a retried envelope of a session is deferred and republished in its session
C21_Witness ==
  /\ last.action = "PublishAcknowledged"
  /\ last.inv.rescheduled
  /\ last.inv.context.publishCount >= 2
  /\ \E m \in queue :
       /\ m.body = last.inv.serviceBusMessage.body
       /\ m.sessionId = "A"
       /\ m.sequenceNumber # m.body.originalBindingData.sequenceNumber

\* The entries a store holds for a session (none when it has no such key)
EntriesOfSession(st, sessionId) ==
  IF sessionId \in DOMAIN st THEN st[sessionId] ELSE <<>>

SessionIds == {"A", "B", undefinedString}

\* The sequence numbers a session has entries for
SequenceNumbersOf(st, sessionId) ==
  {EntriesOfSession(st, sessionId)[i].sequenceNumber :
     i \in 1..Len(EntriesOfSession(st, sessionId))}

\* C22: sessions are isolated.  A message is deferred only on a future
\* lower-sequence entry of its own session, and to that entry's time plus the
\* increment; a retry of a message whose own session holds no lower-sequence
\* entry later than now + delay is scheduled at now + delay, whatever other
\* sessions hold; no step of an invocation changes the entries of a session
\* other than the message's own; and removeScheduledEntry and clearSession on
\* one session leave the entries of every other session as they are (tried
\* on every store a step has just produced, for every session in it and
\* every sequence number it holds and one it does not).
C22_SessionsIsolated ==
  /\ (last.action = "Invoke" /\ last.inv.rescheduled)
       => /\ last.lowerAtArrival # undefined
          /\ last.lowerAtArrival > now
          /\ last.inv.published = 1
               => last.inv.serviceBusMessage.scheduledEnqueueTimeUtc
                    = last.lowerAtArrival
                        + OrDefault(config.sessionOrderingIncrementMs,
                                    DefaultSessionOrderingIncrementMs)
  /\ (last.action = "HandlerFails" /\ last.outcome = "pending")
       => LET obd == last.inv.context.originalBindingData
              delay == calculateBackoffSeconds(config, last.inv.context.publishCount - 1, 0)
              lower == MaxOfSet(LowerTimes(last.storeBefore, obd.sessionId,
                                           obd.sequenceNumber))
          IN (lower = undefined \/ lower <= now + delay.value * MsPerSecond)
               => last.inv.serviceBusMessage.scheduledEnqueueTimeUtc
                    = now + delay.value * MsPerSecond
  /\ last.action # "none"
       => \A k \in SessionIds \ {last.inv.context.originalBindingData.sessionId} :
            EntriesOfSession(store, k) = EntriesOfSession(last.storeBefore, k)
  /\ (last.action # "none" /\ store # last.storeBefore)
       => \A k \in DOMAIN store : \A other \in SessionIds \ {k} :
            /\ EntriesOfSession(clearSession(store, k), other)
                 = EntriesOfSession(store, other)
            /\ \A n \in SequenceNumbersOf(store, k) \cup {nextSequenceNumber} :
                 EntriesOfSession(removeScheduledEntry(store, k, n), other)
                   = EntriesOfSession(store, other)

\* a message of session B is handled, not deferred, while session A holds a
\* lower-sequence entry scheduled in the future, and B holds entries too
C22_Witness ==
  /\ last.action = "Invoke"
  /\ last.inv.handlerCalled
  /\ last.inv.context.originalBindingData.sessionId = "B"
  /\ "B" \in DOMAIN store
  /\ "A" \in DOMAIN store
  /\ \E i \in 1..Len(store["A"]) :
       /\ store["A"][i].sequenceNumber < last.inv.context.originalBindingData.sequenceNumber
       /\ store["A"][i].scheduledTime > now

\* The latest lower-sequence entry of the failed message's session that the
\* store held when the handler failed
LowerAtFailure ==
  MaxOfSet(LowerTimes(last.storeBefore, last.inv.context.originalBindingData.sessionId,
                      last.inv.context.originalBindingData.sequenceNumber))

\* now + the backoff delay of the failed delivery (no jitter configured)
BackoffTime ==
  now + calculateBackoffSeconds(config, last.inv.context.publishCount - 1, 0).value
          * MsPerSecond

\* C23, as stated: when a retry is published after a handler failure with
\* ordering active and the store holds, at the failure, a lower-sequence entry
\* of the session later than now + delay, the retry is published with
\* publishCount incremented at that entry's time plus
\* sessionOrderingIncrementMs.
C23_RetryPushedAfterLowerEntry ==
  (/\ last.action = "HandlerFails"
   /\ last.outcome = "pending"
   /\ PreserveSessionOrdering(config, last.inv.context.originalBindingData)
   /\ LowerAtFailure # undefined
   /\ LowerAtFailure > BackoffTime)
    => /\ last.inv.serviceBusMessage.body.publishCount = last.inv.context.publishCount + 1
       /\ last.inv.serviceBusMessage.scheduledEnqueueTimeUtc =
            LowerAtFailure
              + OrDefault(config.sessionOrderingIncrementMs, DefaultSessionOrderingIncrementMs)

\* C24, as stated, for the interleavings in which the two failures follow one
\* another: when the handlers of two messages of a session with sequence
\* numbers a < b are running at the same time (the second to fail was running
\* when the first failed) and both fail with a retry published, the retry of b
\* is scheduled strictly later than the retry of a.
C24_ConcurrentRetriesOrdered ==
  [][\A a \in Payloads, b \in Payloads :
       (/\ SameSessionOrdered(b, a)
        /\ last.action = "HandlerFails" /\ last.outcome = "pending"
        /\ last'.action = "HandlerFails" /\ last'.outcome = "pending"
        /\ inv[last'.payload].pc = "handler"
        /\ \/ last.payload = a /\ last'.payload = b
           \/ last.payload = b /\ last'.payload = a)
         => LET first == last.inv.serviceBusMessage.scheduledEnqueueTimeUtc
                second == last'.inv.serviceBusMessage.scheduledEnqueueTimeUtc
            IN IF last.payload = a THEN second > first ELSE first > second]_vars

\* C25, as stated: with ordering active, after an invocation that ends in
\* MaxRetriesReachedError the store holds no entry for the message's
\* (sessionId, sequenceNumber).
C25_ExhaustedLeavesNoEntry ==
  (/\ last.action = "HandlerFails"
   /\ last.outcome = "MaxRetriesReachedError"
   /\ PreserveSessionOrdering(config, last.inv.context.originalBindingData))
    => EntriesFor(store, last.inv.context.originalBindingData.sessionId,
                  last.inv.context.originalBindingData.sequenceNumber) = {}

\* C26, as stated: with ordering active, after an invocation that ends in
\* MessageExpiredError, on the retry path or on the deferral path, the store
\* holds no entry for the message's (sessionId, sequenceNumber) scheduled in
\* the future.
C26_ExpiredLeavesNoFutureEntry ==
  (/\ last.action \in {"Invoke", "HandlerFails"}
   /\ last.outcome = "MessageExpiredError"
   /\ PreserveSessionOrdering(config, last.inv.context.originalBindingData))
    => LET obd == last.inv.context.originalBindingData
       IN \A i \in EntriesFor(store, obd.sessionId, obd.sequenceNumber) :
            store[obd.sessionId][i].scheduledTime <= now

\* C27, as stated: only a failure-driven retry evaluates expiry.  An invocation
\* fails with MessageExpiredError only after its handler failed, and a message
\* that ordering defers is republished without its handler being called, also
\* when its original expiry has passed.
C27_DeferralNeverExpires ==
  /\ last.outcome = "MessageExpiredError"
       => last.action = "HandlerFails" /\ last.inv.handlerFailed
  /\ (last.action = "Invoke" /\ DeferralDue)
       => /\ last.outcome = "pending"
          /\ last.inv.published = 1
          /\ ~last.inv.handlerCalled

\* C28, as stated: after an ordering deferral the store holds exactly one
\* entry more than before, and that entry is for the message's
\* (sessionId, sequenceNumber) at the time the message was republished for.
C28_DeferralRecordedOnce ==
  (/\ last.action = "Invoke"
   /\ last.inv.rescheduled
   /\ last.inv.published = 1)
    => LET obd == last.inv.context.originalBindingData
           entry == [sequenceNumber |-> obd.sequenceNumber,
                     scheduledTime |-> last.inv.serviceBusMessage.scheduledEnqueueTimeUtc]
       IN /\ StoreSize(store) = StoreSize(last.storeBefore) + 1
          /\ store = addScheduledEntry(last.storeBefore, obd.sessionId, entry.sequenceNumber,
                                       entry.scheduledTime)

\* C29, as stated: with ordering active, a retry published after a handler
\* failure adds to the store one entry for the message's
\* (sessionId, sequenceNumber) at the time the retry is scheduled for,
\* whatever the remaining time to live.
C29_RetryRecorded ==
  (/\ last.action = "HandlerFails"
   /\ last.outcome = "pending"
   /\ PreserveSessionOrdering(config, last.inv.context.originalBindingData))
    => LET obd == last.inv.context.originalBindingData
       IN store = addScheduledEntry(last.storeBefore, obd.sessionId, obd.sequenceNumber,
                                    last.inv.serviceBusMessage.scheduledEnqueueTimeUtc)

\* C35: exhaustion takes precedence over expiry: whenever the handler fails on
\* a delivery whose publishCount is greater than maxRetries and whose original
\* expiry has passed, the invocation fails with MaxRetriesReachedError, never
\* with MessageExpiredError.
C35_ExhaustionBeforeExpiry ==
  (/\ last.action = "HandlerFails"
   /\ last.inv.context.publishCount > config.maxRetries
   /\ IsExpired(last.inv.context.originalBindingData, now))
    => /\ last.outcome = "MaxRetriesReachedError"
       /\ phase[last.payload] = "exhausted"

\* the expiry is one applyTtlIfNeeded would act on, on a first delivery and
\* on a retry
C35_Witness ==
  /\ last.action = "HandlerFails"
  /\ last.inv.context.publishCount > config.maxRetries
  /\ config.preserveExpiresAt # "false"
  /\ IsExpired(last.inv.context.originalBindingData, now)
  /\ last.inv.context.publishCount >= 2
  /\ last.outcome = "MaxRetriesReachedError"

\* C36, as stated: when the publish of a retry or of a deferral is rejected,
\* the rejection escapes the invocation and the store holds no entry with a
\* future scheduled time for the message that was not published: every such
\* entry of its session and sequence number belongs to a message in the queue.
C36_RejectedPublishLeavesNoEntry ==
  last.action = "PublishRejected"
    => LET obd == last.inv.context.originalBindingData
       IN /\ last.outcome = "PublishError"
          /\ inv[last.payload].pc = "idle"
          /\ \A i \in DOMAIN EntriesOfSession(store, obd.sessionId) :
               LET entry == EntriesOfSession(store, obd.sessionId)[i]
               IN (entry.sequenceNumber = obd.sequenceNumber /\ entry.scheduledTime > now)
                    => \E m \in queue :
                         /\ m.body.message = last.payload
                         /\ m.scheduledEnqueueTimeUtc = entry.scheduledTime

\* C37: every envelope handed to the publisher, and every envelope in the
\* queue, has 1 <= publishCount <= maxRetries + 1; a failure-driven retry
\* publishes the publishCount of the failed delivery plus exactly 1, and an
\* ordering deferral publishes it unchanged; a delivery takes up the
\* publishCount of the envelope delivered (1 for a first delivery).
C37_PublishCountBounded ==
  /\ \A m \in queue :
       IsWrapped(m.body) => /\ 1 <= m.body.publishCount
                            /\ m.body.publishCount <= config.maxRetries + 1
  /\ last.action = "Invoke"
       => last.inv.context.publishCount =
            IF IsWrapped(last.delivered.body) THEN last.delivered.body.publishCount ELSE 1
  /\ Republishes
       => LET published == last.inv.serviceBusMessage.body.publishCount
              delivered == last.inv.context.publishCount
          IN /\ 1 <= delivered
             /\ 1 <= published
             /\ published <= config.maxRetries + 1
             /\ last.action = "HandlerFails" => published = delivered + 1
             /\ last.action = "Invoke" => published = delivered

\* a retry (publishCount 2, the last one allowed) is deferred for ordering
C37_Witness ==
  /\ last.action = "Invoke"
  /\ last.inv.rescheduled
  /\ last.inv.published = 1
  /\ last.inv.context.publishCount = 2
  /\ last.inv.serviceBusMessage.body.publishCount = config.maxRetries + 1

\* C38: each invocation calls the handler at most once and issues at most one
\* publish.  The handler is only called as an invocation starts, by one that
\* has not deferred; a publish is only issued by an invocation that has issued
\* none, and after it the invocation only ends; an invocation that defers for
\* ordering has not called the handler, and one whose handler succeeds ends
\* without a publish.
C38_OneCallOnePublish ==
  [][\A p \in Payloads :
       /\ handlerCalls'[p] # handlerCalls[p]
            => /\ handlerCalls'[p] = handlerCalls[p] + 1
               /\ inv[p].pc = "idle"
               /\ inv'[p].pc = "handler"
               /\ ~inv'[p].rescheduled
               /\ inv'[p].published = 0
       /\ (inv'[p].pc = "publishing" /\ inv[p].pc # "publishing")
            => /\ inv[p].published = 0
               /\ inv'[p].published = 1
               /\ inv'[p].rescheduled => ~inv'[p].handlerCalled /\ inv[p].pc = "idle"
               /\ ~inv'[p].rescheduled => inv[p].pc = "handler" /\ inv'[p].handlerFailed
       /\ (inv[p].pc = "publishing" /\ inv'[p] # inv[p])
            => /\ inv'[p].pc = "idle"
               /\ handlerCalls'[p] = handlerCalls[p]
               /\ Cardinality(queue') <= Cardinality(queue) + 1
       /\ (last'.action = "HandlerSucceeds" /\ last'.payload = p)
            => /\ last'.inv.published = 0
               /\ last'.inv.serviceBusMessage = NoMessage
               /\ inv'[p].pc = "idle"
               /\ queue' = queue]_vars

\* a deferral has been published by an invocation that never called the
\* handler, after the other message's handler failed and its retry went out
C38_Witness ==
  /\ last.action = "PublishAcknowledged"
  /\ last.inv.rescheduled
  /\ ~last.inv.handlerCalled
  /\ handlerCalls[last.payload] = 0
  /\ \E q \in Payloads \ {last.payload} :
       handlerCalls[q] >= 1 /\ retryPublishes[q] >= 1

\* C39, as stated, in the form a finite run settles: with ordering active,
\* once every chain has ended (nothing is queued or running, so every
\* lower-sequence message has reached its end and time has passed every
\* scheduled instant), every message of a session whose publishes were all
\* accepted has had its handler invoked: none was left deferred or dropped
\* by a deferral.
C39_DeferredEventuallyHandled ==
  (queue = {} /\ InFlight = {})
    => \A p \in Payloads :
         (/\ PreserveSessionOrdering(config, firstBindingData[p])
          /\ phase[p] # "lost")
           => /\ handlerCalls[p] >= 1
              /\ phase[p] \in {"succeeded", "exhausted", "expired", "misconfigured"}

(***************************************************************************)
(* Properties of the session ordering store (under SpecStore).             *)
(***************************************************************************)
\* C30: getLatestScheduledTimeForLowerSequence(sessionId, n) returns the
\* maximum scheduledTime among the entries of that session whose
\* sequenceNumber is strictly less than n, undefined when the session has no
\* such entry, and leaves the store as it was.
C30_LatestLowerIsMaximum ==
  last.action = "getLatestScheduledTimeForLowerSequence"
    => LET entries == EntriesOfSession(last.storeBefore, last.sessionId)
           lower == {i \in 1..Len(entries) : entries[i].sequenceNumber < last.sequenceNumber}
       IN /\ lower = {} => last.result = undefined
          /\ lower # {}
               => /\ \E i \in lower : last.result = entries[i].scheduledTime
                  /\ \A i \in lower : last.result >= entries[i].scheduledTime
          /\ store = last.storeBefore

\* the session holds two lower-sequence entries, the later one first, an
\* entry of the sequence number asked for that is later still
C30_Witness ==
  /\ last.action = "getLatestScheduledTimeForLowerSequence"
  /\ last.result = 2 * MsPerSecond
  /\ last.sequenceNumber = 3
  /\ EntriesOfSession(store, last.sessionId)
       = <<[sequenceNumber |-> 1, scheduledTime |-> 2 * MsPerSecond],
           [sequenceNumber |-> 2, scheduledTime |-> 1 * MsPerSecond],
           [sequenceNumber |-> 3, scheduledTime |-> 3 * MsPerSecond]>>

\* C31: removeScheduledEntry(sessionId, n) drops the first entry of the
\* session with sequence number n and nothing else (the entries before it and
\* after it, duplicates of n among them, stay in their order; without a match
\* the entries stay as they are), and after any sequence of calls no session
\* key maps to an empty list.
C31_RemoveDropsFirstMatch ==
  /\ \A k \in DOMAIN store : Len(store[k]) > 0
  /\ last.action = "removeScheduledEntry"
       => LET before == EntriesOfSession(last.storeBefore, last.sessionId)
              after == EntriesOfSession(store, last.sessionId)
              matching == {i \in 1..Len(before) :
                             before[i].sequenceNumber = last.sequenceNumber}
          IN /\ matching = {} => after = before
             /\ matching # {}
                  => LET first == CHOOSE i \in matching : \A j \in matching : i <= j
                     IN /\ Len(after) = Len(before) - 1
                        /\ \A i \in 1..Len(after) :
                             after[i] = IF i < first THEN before[i] ELSE before[i + 1]
             /\ (last.sessionId \in DOMAIN store) = (Len(after) > 0)

\* the session held two entries of the sequence number after another entry:
\* the first of the two is gone, the second is still there
C31_Witness ==
  /\ last.action = "removeScheduledEntry"
  /\ last.sequenceNumber = 1
  /\ EntriesOfSession(last.storeBefore, last.sessionId)
       = <<[sequenceNumber |-> 2, scheduledTime |-> 1 * MsPerSecond],
           [sequenceNumber |-> 1, scheduledTime |-> 2 * MsPerSecond],
           [sequenceNumber |-> 1, scheduledTime |-> 3 * MsPerSecond]>>
  /\ EntriesOfSession(store, last.sessionId)
       = <<[sequenceNumber |-> 2, scheduledTime |-> 1 * MsPerSecond],
           [sequenceNumber |-> 1, scheduledTime |-> 3 * MsPerSecond]>>

\* C32: removeScheduledEntry on a session that is not in the store, or for a
\* sequence number the session has no entry for, and clearSession on a
\* session that is not in the store, return normally and leave the store as
\* it was.
C32_AbsentRemoveAndClearAreNoOps ==
  /\ (/\ last.action = "removeScheduledEntry"
      /\ EntriesFor(last.storeBefore, last.sessionId, last.sequenceNumber) = {})
       => store = last.storeBefore /\ last.result = undefined
  /\ (/\ last.action = "clearSession"
      /\ last.sessionId \notin DOMAIN last.storeBefore)
       => store = last.storeBefore /\ last.result = undefined

\* the session holds entries, none of the sequence number asked for, and the
\* other session is not in the store
C32_Witness ==
  /\ last.action = "removeScheduledEntry"
  /\ last.sessionId \in DOMAIN last.storeBefore
  /\ Len(last.storeBefore[last.sessionId]) >= 2
  /\ EntriesFor(last.storeBefore, last.sessionId, last.sequenceNumber) = {}
  /\ DOMAIN store = {last.sessionId}

(***************************************************************************)
(* Properties of calculateBackoffSeconds (under SpecBackoff).  A delay the *)
(* specification gives as the fraction num / den of a second is compared   *)
(* in milliseconds, rounded to the nearest one.                            *)
(***************************************************************************)
ZeroJitter == OrDefault(config.jitter, DefaultJitter) = 0

Returned == last.action = "calculateBackoffSeconds" /\ last.result.thrown = "none"

\* C17, as stated: for the exponential strategy with zero jitter and a
\* non-negative delaySeconds, the delay equals
\* delaySeconds * exponentialFactor^retryCount (factor 2 when left out),
\* clamped to maxDelaySeconds when that is set.
C17_ExponentialDelay ==
  (/\ last.action = "calculateBackoffSeconds"
   /\ config.retryStrategy = "exponential"
   /\ ZeroJitter
   /\ config.delaySeconds >= 0)
    => LET factor == IF config.exponentialFactor = undefined THEN 2 * ConfigUnit
                     ELSE config.exponentialFactor
           num == config.delaySeconds * Pow(factor, last.retryCount)
           den == ConfigUnit * Pow(ConfigUnit, last.retryCount)
           clamped == config.maxDelaySeconds # undefined
                        /\ num * ConfigUnit > config.maxDelaySeconds * den
       IN /\ last.result.thrown = "none"
          /\ last.result.value * MsPerSecond =
               IF clamped THEN MathRound(MsPerSecond * config.maxDelaySeconds, ConfigUnit)
               ELSE MathRound(MsPerSecond * num, den)

\* C18, as stated: for the linear strategy with zero jitter and a non-negative
\* delaySeconds, the delay equals delaySeconds + linearIncreaseSeconds *
\* retryCount, whatever maxDelaySeconds is.
C18_LinearDelay ==
  (/\ last.action = "calculateBackoffSeconds"
   /\ config.retryStrategy = "linear"
   /\ ZeroJitter
   /\ config.delaySeconds >= 0
   /\ config.linearIncreaseSeconds # undefined)
    => /\ last.result.thrown = "none"
       /\ last.result.value * MsPerSecond =
            MathRound(MsPerSecond * (config.delaySeconds
                                     + config.linearIncreaseSeconds * last.retryCount),
                      ConfigUnit)

\* C19, as stated: every delay returned is >= 0; with zero jitter the delay
\* does not depend on the draw of Math.random(); and for the fixed strategy
\* with zero jitter it is max(0, delaySeconds) whatever the retry count.
C19_NonNegativeDeterministicFixed ==
  Returned
    => /\ last.result.value >= 0
       /\ ZeroJitter
            => \A random \in 0..(RandomSteps - 1) :
                 calculateBackoffSeconds(config, last.retryCount, random) = last.result
       /\ (ZeroJitter /\ config.retryStrategy \in {undefinedString, "fixed"})
            => last.result.value * MsPerSecond =
                 Max(0, MathRound(MsPerSecond * config.delaySeconds, ConfigUnit))

\* C33, as stated: for the linear strategy with zero jitter, a non-negative
\* delaySeconds and no linearIncreaseSeconds configured, the delay equals
\* delaySeconds + delaySeconds * retryCount.
C33_LinearDefaultIncrement ==
  (/\ last.action = "calculateBackoffSeconds"
   /\ config.retryStrategy = "linear"
   /\ ZeroJitter
   /\ config.delaySeconds >= 0
   /\ config.linearIncreaseSeconds = undefined)
    => /\ last.result.thrown = "none"
       /\ last.result.value * MsPerSecond =
            MathRound(MsPerSecond * (config.delaySeconds
                                     + config.delaySeconds * last.retryCount),
                      ConfigUnit)

\* C34, as stated: with jitter j > 0, for every draw of Math.random() the
\* delay returned lies within [d * (1 - j), d * (1 + j)], d being the delay
\* the strategy gives without jitter, rounded and floored at 0.
C34_JitterWithinBounds ==
  (Returned /\ ~ZeroJitter)
    => LET d == calculateBackoffSeconds([config EXCEPT !.jitter = 0],
                                        last.retryCount, last.random).value
       IN /\ d * (JitterScale - config.jitter) <= last.result.value * JitterScale
          /\ last.result.value * JitterScale <= d * (JitterScale + config.jitter)

====
